---- MODULE Spec2Model ----
(***************************************************************************)
(* Model of mdscrape's admission controller (src/src/throttle.rs): the     *)
(* Ticketer with its global semaphore, its lazily created per-origin       *)
(* partitions (semaphore + locked_till), get_ticket, mark_origin_locked    *)
(* and the drop of a Ticket; of with_retry (src/src/retry.rs) and          *)
(* with_retry_for_origin (src/src/context.rs); of the page fan-out of      *)
(* download_to_directory (src/src/chapter.rs); and of the choice of the    *)
(* chapters to download (src/src/title.rs).  Callers run on threads of     *)
(* the tokio runtime, so every access to shared state is one step; time    *)
(* is a discrete clock.                                                    *)
(***************************************************************************)
EXTENDS Integers, Sequences, FiniteSets

\* ---------------------------------------------------------------- bounds
NTasks   == 3      \* concurrent callers of get_ticket
NMarkers == 2      \* concurrent callers of mark_origin_locked
NOrigins == 2      \* distinct origin keys
MaxTime  == 2      \* the clock runs over 0..MaxTime
MaxMarks == 3      \* calls of mark_origin_locked in one run

Tasks   == 1..NTasks
\* The caller whose get_ticket calls the history variables follow; callers
\* are interchangeable.
Observed == CHOOSE t \in Tasks : \A u \in Tasks : t <= u
Markers == 1..NMarkers
Origins == 1..NOrigins

\* ---------------------------------------------------------------- policy
\* rate_limit_wait_time, in clock ticks
WaitTicks == 1

\* TicketPolicy: the policies of the three tests of throttle.rs
\* (test_ticket_locks_on_rate_limit, test_ticket_blocking,
\* test_ticket_local_multi).
TicketPolicy(g, s) ==
    [max_global |-> g, max_per_site |-> s, rate_limit_wait_time |-> WaitTicks]

Policies == {TicketPolicy(1, 1), TicketPolicy(2, 1), TicketPolicy(3, 2)}

\* Option<Instant>::None
None == -1

VARIABLES
    policy,          \* Ticketer.policy, fixed at construction
    now,             \* Instant::now()
    global_permits,  \* free permits of Ticketer.global_lock
    global_waiters,  \* callers queued on global_lock, oldest first
    partitions,      \* keys of Ticketer.state
    lock_permits,    \* per origin: free permits of TicketPartition.lock
    lock_waiters,    \* per origin: callers queued on TicketPartition.lock
    locked_till,     \* per origin: TicketPartition.locked_till
    poisoned,        \* Ticketer.state mutex poisoned by a panic under it
    pc,              \* per task: position in get_ticket / Ticket lifetime
    origin,          \* per task: the origin argument of get_ticket
    wait_till,       \* per task: local wait_till of get_ticket
    local_permit,    \* per task: owns a permit of its origin's lock
    global_permit,   \* per task: owns a permit of global_lock
    mpc,             \* per marker: position in mark_origin_locked
    morigin,         \* per marker: the origin argument
    mwait_till,      \* per marker: local wait_till of mark_origin_locked
    marks,           \* number of mark_origin_locked calls made so far
    \* history variables, read by no action:
    stored_at_call,  \* the deadline stored for the origin of the observed
                     \*   caller when it called get_ticket, if still ahead
    stored_in_sleep, \* the latest deadline stored for that origin by a
                     \*   mark_origin_locked call made while the observed
                     \*   caller slept
    called_in_sleep, \* per marker: its call was made during that sleep
    \* can_get_ticket (test builds):
    probing,         \* the origin of a call that is past line 90, or 0
    \* with_retry:
    rpc,             \* position in with_retry
    count,           \* local count
    duration,        \* local duration, in milliseconds
    log,             \* the outcomes of the attempts (calls of f) made so far
    sleeps,          \* the backoff sleeps made so far: ceiling and length
    waits,           \* number of calls of wait made so far
    result,          \* the value with_retry returned, and from which attempt
    causes,          \* per attempt: the reqwest::Error its outcome was made
                     \*   from (From<reqwest::Error>), if any
    \* units of work: calls of with_retry_for_origin (context.rs) and the
    \* page tasks of download_to_directory (chapter.rs)
    upc,             \* per task: position in the unit
    ucount,          \* per task: count of with_retry, the attempts started
    uorigin,         \* per task: the origin argument of the unit
    umwait_till,     \* per task: wait_till of its mark_origin_locked call
    exists,          \* per task: the output file of its page exists
    opc,             \* position of download_to_directory
    oresult,         \* what download_to_directory returned
    oorigin,         \* the origin of the chapter's pages
    run,             \* number of the call of download_to_directory
    \* history variables, read by no action:
    rl_time,         \* per origin: the latest time of a rate-limited attempt
                     \*   whose mark_origin_locked call is complete
    req_rl,          \* per task: rl_time of its origin when it last called
                     \*   get_ticket
    utickets,        \* per task: Tickets it asked for in this run
    \* files and progress of download_to_directory (chapter.rs):
    position,        \* the position of chapter_bar
    created,         \* per page: calls of File::create for its path made in
                     \*   this run
    \* get_chapter_download_order (title.rs):
    chapter,         \* self.chapter: the chapters of the title, by id
    start_chapter,   \* context.start_chapter, or None
    end_chapter,     \* context.end_chapter, or None
    order            \* what get_chapter_download_order returned

tvars == <<pc, origin, wait_till, local_permit, global_permit>>
mvars == <<mpc, morigin, mwait_till, marks>>
hvars == <<stored_at_call, stored_in_sleep, called_in_sleep>>
pvars == <<probing>>
dvars == <<chapter, start_chapter, end_chapter, order>>
fvars == <<position, created>>
rvars == <<rpc, count, duration, log, sleeps, waits, result, causes>>
uvars == <<upc, ucount, uorigin, umwait_till, exists, opc, oresult, oorigin, run,
           rl_time, req_rl, utickets>>
svars == <<policy, global_permits, global_waiters, partitions, lock_permits,
           lock_waiters, locked_till, poisoned>>
vars  == <<policy, now, global_permits, global_waiters, partitions, lock_permits,
           lock_waiters, locked_till, poisoned, pc, origin, wait_till,
           local_permit, global_permit, mpc, morigin, mwait_till, marks,
           stored_at_call, stored_in_sleep, called_in_sleep, probing, rpc,
           count, duration, log, sleeps, waits, result, causes, upc, ucount,
           uorigin, umwait_till, exists, opc, oresult, oorigin, run, rl_time, req_rl,
           utickets, position, created, chapter, start_chapter, end_chapter, order>>

\* ------------------------------------------------------------- retry.rs
\* DownloadError (and Ok) as the outcome of one call of f.  A ReqwestError
\* carries what is_permanent asks of the reqwest::Error in it.
Outcome(v, b, s) == [variant |-> v, is_builder |-> b, is_status |-> s]

Ok == Outcome("Ok", FALSE, FALSE)

RateLimitError == Outcome("RateLimitError", FALSE, FALSE)

Outcomes ==
    {Ok, RateLimitError}
    \cup {Outcome(v, FALSE, FALSE) :
             v \in {"IOError", "NoSuchChapter", "ChapterIsWrongLanguage", "ParseError"}}
    \cup {Outcome("ReqwestError", b, s) : b \in BOOLEAN, s \in BOOLEAN}

\* MANGADEX_RATE_LIMIT_CODE
RateLimitCode == 429

\* A reqwest::Error as far as retry.rs looks at it: is_builder(), is_status()
\* and status(), which is Some(code) for the errors error_for_status() makes
\* (4xx and 5xx responses) and None (0 here) otherwise.
ReqwestErr(k, c) == [kind |-> k, status |-> c]

ReqwestErrors ==
    {ReqwestErr("builder", 0), ReqwestErr("other", 0)}
    \cup {ReqwestErr("status", c) : c \in {404, RateLimitCode, 500}}

\* The outcome was not made from a reqwest::Error.
NoCause == ReqwestErr("none", 0)

\* From<reqwest::Error> for DownloadError (lines 31-39)
FromReqwest(e) ==
    IF e.status = RateLimitCode THEN RateLimitError
    ELSE Outcome("ReqwestError", e.kind = "builder", e.kind = "status")

\* What an outcome of f can have been made from: the ? operator converts a
\* reqwest::Error with From; the other outcomes have other origins.
CausesOf(out) ==
    IF out.variant \in {"ReqwestError", "RateLimitError"}
    THEN {e \in ReqwestErrors : FromReqwest(e) = out}
    ELSE {NoCause}

\* with_retry has not returned
NoResult == [value |-> Outcome("none", FALSE, FALSE), attempt |-> 0]

\* What download_to_directory returned: Ok(()), or the error of a unit.
Returned(ok, t) == [ok |-> ok, unit |-> t]

NoReturn == Returned(FALSE, 0)

\* ------------------------------------------------------------ Ticketer::new
\* (mutation) one permit too many
GlobalCapacityPlusOne == policy.max_global + 1

GlobalCapacity == policy.max_global

\* (mutation) one permit too many
OriginCapacityPlusOne == policy.max_per_site + 1

\* default_origin_details
OriginCapacity == policy.max_per_site

\* ------------------------------------------------------------- title.rs
\* The chapters of a title (TitleData.chapter, title.rs lines 13-25): a map
\* from chapter id to the fields get_chapter_download_order reads.
NChapters == 3
ChapterIds == 1..NChapters
Langs == {"en", "jp"}
Groups == {1, 2}
Volumes == {"1"}
Numbers == {"1", "2"}
ChapterReferenceData ==
    [lang_code : Langs, group_id : Groups, volume : Volumes, chapter : Numbers]
TitleData == UNION {[D -> ChapterReferenceData] : D \in SUBSET ChapterIds}

\* context.rs lines 39 and 44: the language asked for and the ignored groups.
lang_code == "en"
ignored_groups == {2}

\* What get_chapter_download_order returned: Ok(chapter_ids), or Err of one
\* of the two DownloadError variants with the offending id, or a panic.
\* selected is the range drained at line 112, before the filter.
OrderOk(ids, selected) ==
    [kind |-> "Ok", ids |-> ids, selected |-> selected, id |-> 0]
OrderErr(kind, id) == [kind |-> kind, ids |-> <<>>, selected |-> <<>>, id |-> id]
OrderPanic == OrderErr("panic", 0)
NoOrder == OrderErr("none", 0)

\* The state after Ticketer::new(p) (lines 42-48): the global semaphore is
\* created with p.max_global permits and the map of origins is empty. Nothing
\* else of the program has run.
New(p) ==
    /\ policy = p
    /\ now = 0
    /\ global_permits = GlobalCapacity
    /\ global_waiters = <<>>
    /\ partitions = {}
    /\ lock_permits = [o \in Origins |-> 0]
    /\ lock_waiters = [o \in Origins |-> <<>>]
    /\ locked_till = [o \in Origins |-> None]
    /\ poisoned = FALSE
    /\ pc = [t \in Tasks |-> "idle"]
    /\ origin = [t \in Tasks |-> 1]
    /\ wait_till = [t \in Tasks |-> 0]
    /\ local_permit = [t \in Tasks |-> FALSE]
    /\ global_permit = [t \in Tasks |-> FALSE]
    /\ mpc = [m \in Markers |-> "idle"]
    /\ morigin = [m \in Markers |-> 1]
    /\ mwait_till = [m \in Markers |-> 0]
    /\ marks = 0
    /\ stored_at_call = 0
    /\ stored_in_sleep = 0
    /\ called_in_sleep = [m \in Markers |-> FALSE]
    /\ probing = 0
    /\ rpc = "idle"
    /\ count = 0
    /\ duration = 0
    /\ log = <<>>
    /\ sleeps = <<>>
    /\ waits = 0
    /\ result = NoResult
    /\ causes = <<>>
    /\ upc = [t \in Tasks |-> "none"]
    /\ ucount = [t \in Tasks |-> 0]
    /\ uorigin = [t \in Tasks |-> 1]
    /\ umwait_till = [t \in Tasks |-> 0]
    /\ exists = [t \in Tasks |-> FALSE]
    /\ opc = "idle"
    /\ oresult = NoReturn
    /\ oorigin = 1
    /\ run = 1
    /\ rl_time = [o \in Origins |-> None]
    /\ req_rl = [t \in Tasks |-> None]
    /\ utickets = [t \in Tasks |-> 0]
    /\ position = 0
    /\ created = [t \in Tasks |-> 0]

\* No title has been read.
NoTitle ==
    /\ chapter = [id \in {} |-> 0]
    /\ start_chapter = None
    /\ end_chapter = None
    /\ order = NoOrder

Init == \E p \in Policies : New(p) /\ NoTitle

\* ------------------------------------------------- tokio::sync::Semaphore
\* A fair semaphore: acquire takes a free permit only when nobody is queued,
\* and a released permit is handed to the oldest queued caller.
CanTakeLocal(p, o) == p > 0 /\ lock_waiters[o] = <<>>

CanTakeGlobal == global_permits > 0 /\ global_waiters = <<>>

\* (mutation) the permit is put back but the oldest queued caller is not woken
ReleaseLocalNoWake(t, next) ==
    LET o == origin[t] IN
    /\ lock_permits' = [lock_permits EXCEPT ![o] = @ + 1]
    /\ local_permit' = [local_permit EXCEPT ![t] = FALSE]
    /\ pc' = [pc EXCEPT ![t] = next]
    /\ UNCHANGED lock_waiters

\* (mutation) a released permit goes to the newest queued caller
ReleaseLocalToNewest(t, next) ==
    LET o == origin[t] IN
    IF lock_waiters[o] # <<>> THEN
        LET n == Len(lock_waiters[o])
            h == lock_waiters[o][n] IN
        /\ lock_waiters' = [lock_waiters EXCEPT ![o] = SubSeq(@, 1, n - 1)]
        /\ local_permit' = [local_permit EXCEPT ![t] = FALSE, ![h] = TRUE]
        /\ pc' = [pc EXCEPT ![t] = next, ![h] = "check"]
        /\ UNCHANGED lock_permits
    ELSE
        /\ lock_permits' = [lock_permits EXCEPT ![o] = @ + 1]
        /\ local_permit' = [local_permit EXCEPT ![t] = FALSE]
        /\ pc' = [pc EXCEPT ![t] = next]
        /\ UNCHANGED lock_waiters

\* Drop of an OwnedSemaphorePermit of origin[t]'s lock; t continues at `next`.
ReleaseLocal(t, next) ==
    LET o == origin[t] IN
    IF lock_waiters[o] # <<>> THEN
        LET h == Head(lock_waiters[o]) IN
        /\ lock_waiters' = [lock_waiters EXCEPT ![o] = Tail(@)]
        /\ local_permit' = [local_permit EXCEPT ![t] = FALSE, ![h] = TRUE]
        /\ pc' = [pc EXCEPT ![t] = next, ![h] = "check"]
        /\ UNCHANGED lock_permits
    ELSE
        /\ lock_permits' = [lock_permits EXCEPT ![o] = @ + 1]
        /\ local_permit' = [local_permit EXCEPT ![t] = FALSE]
        /\ pc' = [pc EXCEPT ![t] = next]
        /\ UNCHANGED lock_waiters

\* (mutation) a waiter is woken and the permit is also put back
ReleaseGlobalAndWake(t, next) ==
    IF global_waiters # <<>> THEN
        LET h == Head(global_waiters) IN
        /\ global_waiters' = Tail(global_waiters)
        /\ global_permit' = [global_permit EXCEPT ![t] = FALSE, ![h] = TRUE]
        /\ pc' = [pc EXCEPT ![t] = next, ![h] = "holding"]
        /\ global_permits' = global_permits + 1
    ELSE
        /\ global_permits' = global_permits + 1
        /\ global_permit' = [global_permit EXCEPT ![t] = FALSE]
        /\ pc' = [pc EXCEPT ![t] = next]
        /\ UNCHANGED global_waiters

\* Drop of an OwnedSemaphorePermit of global_lock; t continues at `next`.
\* The oldest queued caller, if any, gets the permit and with it its Ticket.
ReleaseGlobal(t, next) ==
    IF global_waiters # <<>> THEN
        LET h == Head(global_waiters) IN
        /\ global_waiters' = Tail(global_waiters)
        /\ global_permit' = [global_permit EXCEPT ![t] = FALSE, ![h] = TRUE]
        /\ pc' = [pc EXCEPT ![t] = next, ![h] = "holding"]
        /\ UNCHANGED global_permits
    ELSE
        /\ global_permits' = global_permits + 1
        /\ global_permit' = [global_permit EXCEPT ![t] = FALSE]
        /\ pc' = [pc EXCEPT ![t] = next]
        /\ UNCHANGED global_waiters

\* ------------------------------------------------------------- get_ticket
\* get_origin_locked_till: locked_till.unwrap_or(Instant::now())
LockedTillOrNow(o) == IF locked_till[o] = None THEN now ELSE locked_till[o]

\* The test of line 103: Instant::now() >= wait_till
LockoutOver(wt) == now >= wt

\* Line 101: get_origin_lock (creating the partition on first reference)
\* and the first poll of acquire_owned.  A poisoned state mutex makes
\* lock().unwrap() panic.
AcquireLocal(t, o) ==
    /\ origin' = [origin EXCEPT ![t] = o]
    /\ IF poisoned THEN
           /\ pc' = [pc EXCEPT ![t] = "panicked"]
           /\ UNCHANGED <<partitions, lock_permits, lock_waiters, local_permit>>
       ELSE
           /\ partitions' = partitions \cup {o}
           /\ LET p == IF o \in partitions THEN lock_permits[o] ELSE OriginCapacity IN
              IF CanTakeLocal(p, o) THEN
                  /\ lock_permits' = [lock_permits EXCEPT ![o] = p - 1]
                  /\ local_permit' = [local_permit EXCEPT ![t] = TRUE]
                  /\ pc' = [pc EXCEPT ![t] = "check"]
                  /\ UNCHANGED lock_waiters
              ELSE
                  /\ lock_permits' = [lock_permits EXCEPT ![o] = p]
                  /\ lock_waiters' = [lock_waiters EXCEPT ![o] = Append(@, t)]
                  /\ pc' = [pc EXCEPT ![t] = "wait_local"]
                  /\ UNCHANGED local_permit

\* (mutation) the global lock is asked for together with the origin's lock
EnterLoopGlobalFirst(t, o) ==
    /\ AcquireLocal(t, o)
    /\ IF global_permits > 0 /\ global_waiters = <<>> THEN
           /\ global_permits' = global_permits - 1
           /\ global_permit' = [global_permit EXCEPT ![t] = TRUE]
           /\ UNCHANGED global_waiters
       ELSE
           /\ global_waiters' = Append(global_waiters, t)
           /\ UNCHANGED <<global_permits, global_permit>>

\* The head of the loop of get_ticket (lines 99-101): only the origin's lock
\* is asked for, the global lock is not touched yet.
EnterLoop(t, o) ==
    /\ AcquireLocal(t, o)
    /\ UNCHANGED <<global_permits, global_waiters, global_permit>>

\* Line 110: the first poll of global_lock.acquire_owned(); with a permit the
\* Ticket is returned (lines 111-114).
AcquireGlobal(t) ==
    IF CanTakeGlobal THEN
        /\ global_permits' = global_permits - 1
        /\ global_permit' = [global_permit EXCEPT ![t] = TRUE]
        /\ pc' = [pc EXCEPT ![t] = "holding"]
        /\ UNCHANGED global_waiters
    ELSE
        /\ global_waiters' = Append(global_waiters, t)
        /\ pc' = [pc EXCEPT ![t] = "wait_global"]
        /\ UNCHANGED <<global_permits, global_permit>>

\* A call of get_ticket(o): its first poll runs to the first acquire.
GetTicket(t, o) ==
    /\ pc[t] = "idle"
    /\ EnterLoop(t, o)
    /\ stored_at_call' = IF t = Observed /\ locked_till[o] > now
                         THEN locked_till[o] ELSE stored_at_call
    /\ UNCHANGED <<uvars, pvars, dvars, fvars, rvars, policy, now, locked_till, poisoned, wait_till, mvars,
                   stored_in_sleep, called_in_sleep>>

\* (mutation) the caller sleeps with the origin permit in hand
SleepHoldingPermit(t, wt) ==
    /\ pc' = [pc EXCEPT ![t] = "sleep"]
    /\ wait_till' = [wait_till EXCEPT ![t] = wt]
    /\ UNCHANGED <<lock_permits, lock_waiters, local_permit>>

\* Lines 106-107: give the origin permit back, then sleep_until(wait_till).
Sleep(t, wt) ==
    /\ ReleaseLocal(t, "sleep")
    /\ wait_till' = [wait_till EXCEPT ![t] = wt]

\* Lines 102-109 and 110: with the origin permit in hand read the deadline;
\* when it has passed go on to the global lock, otherwise give the origin
\* permit back and sleep until the deadline.
CheckLockout(t) ==
    /\ pc[t] = "check"
    /\ IF poisoned THEN
           /\ ReleaseLocal(t, "panicked")
           /\ UNCHANGED <<global_permits, global_waiters, global_permit, wait_till>>
       ELSE
           LET wt == LockedTillOrNow(origin[t]) IN
           IF LockoutOver(wt) THEN
               /\ AcquireGlobal(t)
               /\ UNCHANGED <<lock_permits, lock_waiters, local_permit, wait_till>>
           ELSE
               /\ Sleep(t, wt)
               /\ UNCHANGED <<global_permits, global_waiters, global_permit>>
    /\ UNCHANGED <<uvars, pvars, dvars, fvars, rvars, policy, now, partitions, locked_till, poisoned, origin, mvars,
                   hvars>>

\* sleep_until(wait_till) is over: back to the head of the loop (line 101).
Wake(t) ==
    /\ pc[t] = "sleep"
    /\ now >= wait_till[t]
    /\ EnterLoop(t, origin[t])
    /\ wait_till' = [wait_till EXCEPT ![t] = 0]
    /\ called_in_sleep' = IF t = Observed THEN [m \in Markers |-> FALSE]
                          ELSE called_in_sleep
    /\ UNCHANGED <<uvars, pvars, dvars, fvars, rvars, policy, now, locked_till, poisoned, mvars, stored_at_call,
                   stored_in_sleep>>

\* ------------------------------------------------------------ drop(Ticket)
\* (mutation) the fields declared in the other order: _local_permit first
DropLocalPermitFirst(t) ==
    /\ pc[t] = "holding"
    /\ ReleaseLocal(t, "dropping")
    /\ UNCHANGED <<uvars, pvars, dvars, fvars, rvars, policy, now, global_permits, global_waiters, partitions,
                   locked_till, poisoned, origin, wait_till, global_permit,
                   mvars, hvars>>

\* Fields are dropped in declaration order: _global_permit first ...
DropGlobalPermit(t) ==
    /\ pc[t] = "holding"
    /\ ReleaseGlobal(t, "dropping")
    /\ UNCHANGED <<uvars, pvars, dvars, fvars, rvars, policy, now, partitions, lock_permits, lock_waiters,
                   locked_till, poisoned, origin, wait_till, local_permit,
                   mvars, hvars>>

\* ... then _local_permit.
DropLocalPermit(t) ==
    /\ pc[t] = "dropping"
    /\ ReleaseLocal(t, "idle")
    /\ origin' = [origin EXCEPT ![t] = 1]
    /\ stored_at_call' = IF t = Observed THEN 0 ELSE stored_at_call
    /\ stored_in_sleep' = IF t = Observed THEN 0 ELSE stored_in_sleep
    /\ UNCHANGED called_in_sleep
    /\ UNCHANGED <<uvars, pvars, dvars, fvars, rvars, policy, now, global_permits, global_waiters, partitions,
                   locked_till, poisoned, wait_till, global_permit, mvars>>

\* ----------------------------------------------------- mark_origin_locked
\* The assignment of line 63, given the stored and the computed deadline.
StoredDeadline(old, new) == new

Max(a, b) == IF a >= b THEN a ELSE b

\* (mutation) the deadline is stored for every partition
MarkedLockedTillEverywhere(o, d) ==
    [x \in Origins |-> IF x \in partitions THEN d ELSE locked_till[x]]

\* Line 63: Ticketer.state after get_mut(origin).unwrap().locked_till = Some(d)
MarkedLockedTill(o, d) ==
    [locked_till EXCEPT ![o] = StoredDeadline(@, d)]

\* Lines 59-61: the deadline is computed from the clock before the state
\* mutex is taken.  (No deadline is computed beyond the end of the clock.)
MarkBegin(m, o) ==
    /\ mpc[m] = "idle"
    /\ marks < MaxMarks
    /\ now + policy.rate_limit_wait_time <= MaxTime
    /\ marks' = marks + 1
    /\ mpc' = [mpc EXCEPT ![m] = "locking"]
    /\ morigin' = [morigin EXCEPT ![m] = o]
    /\ mwait_till' = [mwait_till EXCEPT ![m] = now + policy.rate_limit_wait_time]
    /\ called_in_sleep' = [called_in_sleep EXCEPT
           ![m] = pc[Observed] = "sleep" /\ origin[Observed] = o]
    /\ UNCHANGED <<now, svars, tvars, stored_at_call, stored_in_sleep, uvars, pvars, dvars, fvars,
                   rvars>>

\* Lines 62-63: under the mutex, get_mut(origin).unwrap().locked_till = ...;
\* unwrap panics on a missing partition, and the panic poisons the mutex.
MarkStore(m) ==
    /\ mpc[m] = "locking"
    /\ IF poisoned THEN
           /\ mpc' = [mpc EXCEPT ![m] = "panicked"]
           /\ UNCHANGED <<locked_till, poisoned, stored_in_sleep>>
       ELSE IF morigin[m] \notin partitions THEN
           /\ mpc' = [mpc EXCEPT ![m] = "panicked"]
           /\ poisoned' = TRUE
           /\ UNCHANGED <<locked_till, stored_in_sleep>>
       ELSE
           /\ mpc' = [mpc EXCEPT ![m] = "idle"]
           /\ locked_till' = MarkedLockedTill(morigin[m], mwait_till[m])
           /\ stored_in_sleep' =
                  IF called_in_sleep[m] /\ pc[Observed] = "sleep"
                  THEN Max(stored_in_sleep, locked_till'[morigin[m]])
                  ELSE stored_in_sleep
           /\ UNCHANGED poisoned
    /\ morigin' = [morigin EXCEPT ![m] = 1]
    /\ mwait_till' = [mwait_till EXCEPT ![m] = 0]
    /\ called_in_sleep' = [called_in_sleep EXCEPT ![m] = FALSE]
    /\ UNCHANGED <<uvars, pvars, dvars, fvars, rvars, policy, now, global_permits, global_waiters, partitions,
                   lock_permits, lock_waiters, tvars, marks, stored_at_call>>

\* ------------------------------------------------------------------ clock
Tick ==
    /\ now < MaxTime
    /\ now' = now + 1
    /\ UNCHANGED <<svars, tvars, mvars, hvars, uvars, pvars, dvars, fvars, rvars>>

\* ---------------------------------------------------------- can_get_ticket
\* Line 90: available_permits() of the global lock; with none the call
\* returns false, otherwise it goes on to line 93.
ProbeGlobal(o) ==
    /\ probing = 0
    /\ probing' = IF global_permits = 0 THEN 0 ELSE o
    /\ UNCHANGED <<now, svars, tvars, mvars, hvars, rvars, uvars, dvars, fvars>>

\* (mutation) the probe takes a permit of the origin's lock when one is free
ProbeLocalTaking ==
    /\ probing # 0
    /\ probing' = 0
    /\ partitions' = partitions \cup {probing}
    /\ lock_permits' = [lock_permits EXCEPT ![probing] =
                            IF probing \in partitions
                            THEN (IF @ > 0 THEN @ - 1 ELSE @)
                            ELSE OriginCapacity - 1]
    /\ UNCHANGED <<policy, now, global_permits, global_waiters, lock_waiters,
                   locked_till, poisoned, tvars, mvars, hvars, rvars, uvars, dvars, fvars>>

\* Line 93: get_origin_lock(origin) creates the partition on first reference
\* (or panics on a poisoned mutex); available_permits() takes nothing.
ProbeLocal ==
    /\ probing # 0
    /\ probing' = 0
    /\ IF poisoned \/ probing \in partitions THEN
           UNCHANGED <<partitions, lock_permits>>
       ELSE
           /\ partitions' = partitions \cup {probing}
           /\ lock_permits' = [lock_permits EXCEPT ![probing] = OriginCapacity]
    /\ UNCHANGED <<policy, now, global_permits, global_waiters, lock_waiters,
                   locked_till, poisoned, tvars, mvars, hvars, rvars, uvars, dvars, fvars>>

\* The value can_get_ticket(o) returns when it runs undisturbed.
can_get_ticket(o) ==
    /\ global_permits # 0
    /\ (IF o \in partitions THEN lock_permits[o] ELSE OriginCapacity) > 0

\* ----------------------------------------------------------------- retry
\* (mutation) one retry less
RetryBudgetShort == 4 - 1

\* (mutation) one retry more
RetryBudgetLong == 4 + 1

\* Line 91: an attempt that failed transiently is retried while count < 4.
RetryBudget == 4

\* Line 82: Duration::from_millis(200)
InitialBackoff == 200

\* (mutation) the ceiling doubles
BackoffFactorTwo == 3 - 1

\* Line 93: duration *= 3
BackoffFactor == 3

\* Attempts of one call of with_retry explored.
MaxAttempts == 6

\* (mutation) an IOError is taken for transient
is_permanent_but_io(e) ==
    CASE e.variant = "IOError" -> FALSE
      [] e.variant = "ParseError" -> TRUE
      [] e.variant = "NoSuchChapter" -> TRUE
      [] e.variant = "ChapterIsWrongLanguage" -> TRUE
      [] e.variant = "RateLimitError" -> FALSE
      [] e.variant = "ReqwestError" -> e.is_builder \/ e.is_status

\* is_permanent (lines 62-73)
is_permanent(e) ==
    CASE e.variant = "IOError" -> TRUE
      [] e.variant = "ParseError" -> TRUE
      [] e.variant = "NoSuchChapter" -> TRUE
      [] e.variant = "ChapterIsWrongLanguage" -> TRUE
      [] e.variant = "RateLimitError" -> FALSE
      [] e.variant = "ReqwestError" -> e.is_builder \/ e.is_status

\* The call of with_retry: lines 81-83, and the loop entered (line 85).
WithRetry ==
    /\ rpc = "idle"
    /\ rpc' = "attempt"
    /\ duration' = InitialBackoff
    /\ count' = 1
    /\ UNCHANGED <<now, svars, tvars, mvars, hvars, pvars, dvars, fvars, uvars, log, sleeps, waits,
                   result, causes>>

\* return at lines 87, 89, 95
Return(v) ==
    /\ result' = [value |-> v, attempt |-> Len(log')]
    /\ rpc' = "returned"
    /\ UNCHANGED <<sleeps, waits>>

\* (mutation) a rate-limited attempt is returned once the budget is used up
AttemptWithinBudget(out, d) ==
    /\ rpc = "attempt"
    /\ log' = Append(log, out)
    /\ IF out = Ok THEN Return(out)
       ELSE IF is_permanent(out) THEN Return(out)
       ELSE IF count < 4 THEN
           IF out.variant = "RateLimitError" THEN
               /\ rpc' = "wait"
               /\ waits' = waits + 1
               /\ UNCHANGED <<sleeps, result>>
           ELSE
               /\ rpc' = "sleep"
               /\ sleeps' = Append(sleeps, [ceiling |-> duration, slept |-> d])
               /\ UNCHANGED <<waits, result>>
       ELSE Return(out)
    /\ UNCHANGED <<now, svars, tvars, mvars, hvars, pvars, dvars, fvars, uvars, count, duration>>

\* (mutation) a second rate-limited attempt is returned as the error
AttemptRateLimitFatal(out, d) ==
    /\ rpc = "attempt"
    /\ log' = Append(log, out)
    /\ IF out = Ok THEN Return(out)
       ELSE IF out.variant = "RateLimitError" /\ waits = 0 THEN
           /\ rpc' = "wait"
           /\ waits' = waits + 1
           /\ UNCHANGED <<sleeps, result>>
       ELSE IF out.variant = "RateLimitError" \/ is_permanent(out) THEN Return(out)
       ELSE IF count < 4 THEN
           /\ rpc' = "sleep"
           /\ sleeps' = Append(sleeps, [ceiling |-> duration, slept |-> d])
           /\ UNCHANGED <<waits, result>>
       ELSE Return(out)
    /\ UNCHANGED <<now, svars, tvars, mvars, hvars, pvars, dvars, fvars, uvars, count, duration>>

\* Lines 86-97: f().await completes with `out`; d is the length of the
\* sleep of line 92, duration.mul_f64(rng.gen()) with rng.gen() in [0, 1).
Attempt(out, d) ==
    /\ rpc = "attempt"
    /\ log' = Append(log, out)
    /\ IF out = Ok THEN Return(out)
       ELSE IF out.variant = "RateLimitError" THEN
           /\ rpc' = "wait"
           /\ waits' = waits + 1
           /\ UNCHANGED <<sleeps, result>>
       ELSE IF is_permanent(out) THEN Return(out)
       ELSE IF count < RetryBudget THEN
           /\ rpc' = "sleep"
           /\ sleeps' = Append(sleeps, [ceiling |-> duration, slept |-> d])
           /\ UNCHANGED <<waits, result>>
       ELSE Return(out)
    /\ UNCHANGED <<now, svars, tvars, mvars, hvars, pvars, dvars, fvars, uvars, count, duration>>

\* wait().await is over (line 88): back to line 85.
WaitDone ==
    /\ rpc = "wait"
    /\ count < MaxAttempts
    /\ rpc' = "attempt"
    /\ count' = count + 1
    /\ UNCHANGED <<now, svars, tvars, mvars, hvars, pvars, dvars, fvars, uvars, duration, log,
                   sleeps, waits, result, causes>>

\* The sleep of line 92 is over: line 93, then back to line 85.
SleepDone ==
    /\ rpc = "sleep"
    /\ count < MaxAttempts
    /\ rpc' = "attempt"
    /\ duration' = duration * BackoffFactor
    /\ count' = count + 1
    /\ UNCHANGED <<now, svars, tvars, mvars, hvars, pvars, dvars, fvars, uvars, log, sleeps, waits,
                   result, causes>>

\* rng.gen() of line 92 is a float of [0, 1): here r / GenSteps for r in
\* 0 .. GenSteps - 1.
GenSteps == 1000

\* duration.mul_f64(r / GenSteps), in milliseconds rounded down
mul_f64(dur, r) == (dur * r) \div GenSteps

\* Lengths of the sleep tried: rng.gen() at its ends and in the middle.
SleepLengths(dur) ==
    {mul_f64(dur, r) : r \in {0, GenSteps \div 2, GenSteps - 1}}

RetryNext ==
    \/ WithRetry
    \/ \E out \in Outcomes, d \in SleepLengths(duration) :
           /\ Attempt(out, d)
           /\ \E e \in CausesOf(out) : causes' = Append(causes, e)
    \/ WaitDone
    \/ SleepDone

RetryInit == Init /\ policy = TicketPolicy(1, 1)

RetrySpec == RetryInit /\ [][RetryNext]_vars

\* ------------------------------------------------------- units of work
\* Units running at the same time.
NUnits == 2

UnitTasks == 1..NUnits

\* What one call of f can end with, one outcome of each class of with_retry.
UnitOutcomes ==
    {Ok, RateLimitError, Outcome("ReqwestError", FALSE, FALSE),
     Outcome("ParseError", FALSE, FALSE)}

\* What the unit actions leave alone apart from the unit's own variables.
ticketer_frame == <<now, svars, tvars, mvars, hvars, pvars, dvars, fvars, rvars>>

\* (mutation) f is called at once, no Ticket is asked for before it
WithRetryForOriginLazy(t, o) ==
    /\ upc[t] = "none"
    /\ pc[t] = "idle"
    /\ upc' = [upc EXCEPT ![t] = "attempt"]
    /\ uorigin' = [uorigin EXCEPT ![t] = o]
    /\ ucount' = [ucount EXCEPT ![t] = @ + 1]
    /\ UNCHANGED <<ticketer_frame, umwait_till, exists, opc, oresult, oorigin,
                   run, rl_time, req_rl, utickets>>

\* context.rs line 151: with_retry_for_origin(o, f) starts with
\* get_ticket(o).
WithRetryForOrigin(t, o) ==
    /\ upc[t] = "none"
    /\ pc[t] = "idle"
    /\ EnterLoop(t, o)
    /\ upc' = [upc EXCEPT ![t] = "ticket"]
    /\ uorigin' = [uorigin EXCEPT ![t] = o]
    /\ req_rl' = [req_rl EXCEPT ![t] = rl_time[o]]
    /\ UNCHANGED <<policy, now, locked_till, poisoned, wait_till, mvars, hvars,
                   pvars, dvars, fvars, rvars, ucount, umwait_till, exists, opc, oresult,
                   oorigin, run, rl_time, utickets>>

\* (mutation) f is called without waiting for the Ticket
StartAttemptUnticketed(t) ==
    /\ upc[t] = "ticket"
    /\ ucount[t] < MaxAttempts
    /\ upc' = [upc EXCEPT ![t] = "attempt"]
    /\ ucount' = [ucount EXCEPT ![t] = @ + 1]
    /\ UNCHANGED <<ticketer_frame, uorigin, umwait_till, exists, opc, oresult,
                   oorigin, run, rl_time, req_rl, utickets>>

\* retry.rs lines 85-86: with the Ticket in hand, count += 1 and f() is
\* called.
StartAttempt(t) ==
    /\ upc[t] = "ticket"
    /\ pc[t] = "holding"
    /\ ucount[t] < MaxAttempts
    /\ upc' = [upc EXCEPT ![t] = "attempt"]
    /\ ucount' = [ucount EXCEPT ![t] = @ + 1]
    /\ UNCHANGED <<ticketer_frame, uorigin, umwait_till, exists, opc, oresult,
                   oorigin, run, rl_time, req_rl, utickets>>

\* retry.rs lines 86-97 for the outcome of f: where the unit goes next.
AfterFetch(t, out) ==
    IF out = Ok THEN "finish_ok"
    ELSE IF out.variant = "RateLimitError" THEN "marking"
    ELSE IF is_permanent(out) THEN "finish_err"
    ELSE IF ucount[t] < RetryBudget THEN "backoff"
    ELSE "finish_err"

\* f().await completes with `out` (retry.rs lines 86-97).  On a rate-limited
\* attempt wait() is called in the same poll: context.rs line 153 calls
\* mark_origin_locked, which reads the clock (throttle.rs line 61).
FetchDone(t, out) ==
    /\ upc[t] = "attempt"
    /\ upc' = [upc EXCEPT ![t] = AfterFetch(t, out)]
    /\ IF out.variant = "RateLimitError" THEN
           /\ now + policy.rate_limit_wait_time <= MaxTime
           /\ umwait_till' = [umwait_till EXCEPT
                                  ![t] = now + policy.rate_limit_wait_time]
       ELSE UNCHANGED umwait_till
    /\ UNCHANGED <<ticketer_frame, ucount, uorigin, exists, opc, oresult,
                   oorigin, run, rl_time, req_rl, utickets>>

\* throttle.rs lines 62-63, called from context.rs line 153: the deadline is
\* stored under the state mutex.  lock() panics on a poisoned mutex; get_mut
\* of an origin without partition gives None and the unwrap panics with the
\* guard alive, which poisons the mutex.
UnitMarkStore(t) ==
    /\ upc[t] = "marking"
    /\ IF poisoned THEN
           /\ upc' = [upc EXCEPT ![t] = "panicked"]
           /\ UNCHANGED <<locked_till, poisoned>>
       ELSE IF uorigin[t] \notin partitions THEN
           /\ upc' = [upc EXCEPT ![t] = "panicked"]
           /\ poisoned' = TRUE
           /\ UNCHANGED locked_till
       ELSE
           /\ upc' = [upc EXCEPT ![t] = "replace"]
           /\ locked_till' = MarkedLockedTill(uorigin[t], umwait_till[t])
           /\ UNCHANGED poisoned
    /\ rl_time' = [rl_time EXCEPT ![uorigin[t]] =
                       Max(@, umwait_till[t] - policy.rate_limit_wait_time)]
    /\ UNCHANGED <<policy, now, global_permits, global_waiters, partitions,
                   lock_permits, lock_waiters, tvars, mvars, hvars,
                   pvars, dvars, fvars, rvars, ucount, uorigin, umwait_till, exists, opc,
                   oresult, oorigin, run, req_rl, utickets>>

\* retry.rs lines 92-93: the backoff sleep is over; the loop goes on with the
\* Ticket the unit never gave up.
BackoffDone(t) ==
    /\ upc[t] = "backoff"
    /\ upc' = [upc EXCEPT ![t] = "ticket"]
    /\ UNCHANGED <<ticketer_frame, ucount, uorigin, umwait_till, exists, opc,
                   oresult, oorigin, run, rl_time, req_rl, utickets>>

\* The unit is at a point where its Ticket is dropped: ticket.replace(None)
\* (context.rs line 155), or the end of the scope that owns the Ticket.
TicketDropped(t) ==
    upc[t] \in {"replace", "finish_ok", "finish_err", "cancelled"}

\* context.rs line 156: get_ticket again, after the old Ticket is gone.
GetTicketAgain(t) ==
    /\ upc[t] = "replace"
    /\ pc[t] = "idle"
    /\ EnterLoop(t, uorigin[t])
    /\ upc' = [upc EXCEPT ![t] = "ticket"]
    /\ req_rl' = [req_rl EXCEPT ![t] = rl_time[uorigin[t]]]
    /\ UNCHANGED <<policy, now, locked_till, poisoned, wait_till, mvars, hvars,
                   pvars, dvars, fvars, rvars, ucount, uorigin, umwait_till, exists, opc,
                   oresult, oorigin, run, rl_time, utickets>>

\* Calls of with_retry_for_origin by the units, each on its own thread.
OriginRetryNext ==
    \/ \E t \in UnitTasks, o \in Origins : WithRetryForOrigin(t, o)
    \/ \E t \in UnitTasks : CheckLockout(t)
    \/ \E t \in UnitTasks : Wake(t)
    \/ \E t \in UnitTasks : StartAttempt(t)
    \/ \E t \in UnitTasks, out \in UnitOutcomes : FetchDone(t, out)
    \/ \E t \in UnitTasks : UnitMarkStore(t)
    \/ \E t \in UnitTasks : BackoffDone(t)
    \/ \E t \in UnitTasks : TicketDropped(t) /\ DropGlobalPermit(t)
    \/ \E t \in UnitTasks : TicketDropped(t) /\ DropLocalPermit(t)
    \/ \E t \in UnitTasks : GetTicketAgain(t)
    \/ Tick

OriginRetrySpec == Init /\ [][OriginRetryNext]_vars

\* ------------------------------------- chapter.rs: download_to_directory
\* The page futures of one call.
Pages == Tasks

\* The caller of download_to_directory asks for the Ticket of line 120
\* itself, before any page future exists.
Orchestrator == CHOOSE t \in Tasks : \A u \in Tasks : t <= u

\* The output files found in the directory before the first call.
FileSets == [Tasks -> BOOLEAN]

\* What the write of lines 150-152 can end with.
WriteOutcomes == {"written", "create_failed", "write_failed"}

\* A sequence without the caller t: the drop of a pending acquire future
\* takes its waiter out of the semaphore's queue.
Without(q, t) == SelectSeq(q, LAMBDA x : x # t)

\* Lines 105-120: the call, up to get_ticket(&origin) of line 120.  A second
\* call is made over the same pages and directory.
DownloadToDirectory(o, ex) ==
    /\ opc = "idle"
    /\ pc[Orchestrator] = "idle"
    /\ run > 1 => o = oorigin /\ ex = exists
    /\ EnterLoop(Orchestrator, o)
    /\ opc' = "ticket"
    /\ oorigin' = o
    /\ exists' = ex
    /\ UNCHANGED <<policy, now, locked_till, poisoned, wait_till, mvars, hvars,
                   pvars, dvars, fvars, rvars, upc, ucount, uorigin, umwait_till, oresult,
                   run, rl_time, req_rl, utickets>>

\* Lines 120-160: the Ticket of line 120 is a temporary and is gone when the
\* statement ends; the page futures are collected, none has been polled yet.
Launch ==
    /\ opc = "ticket"
    /\ pc[Orchestrator] = "idle"
    /\ opc' = "polling"
    /\ upc' = [t \in Tasks |-> "start"]
    /\ UNCHANGED <<ticketer_frame, ucount, uorigin, umwait_till, exists,
                   oresult, oorigin, run, rl_time, req_rl, utickets>>

\* The decimal digits of n, as format! writes them.
RECURSIVE Digits(_)
Digits(n) == IF n < 10 THEN <<n>> ELSE Digits(n \div 10) \o <<n % 10>>

\* {:04}: the digits, with zeros in front up to a width of four.
Format04(n) ==
    LET d == Digits(n)
    IN  IF Len(d) >= 4 THEN d ELSE [i \in 1..(4 - Len(d)) |-> 0] \o d

\* Lines 136-137: the output path of page t, the (t - 1)-th of page_array:
\* format!("{:04}.{}", i + 1, extension) inside the chapter's directory.
PagePath(t) == [name |-> Format04((t - 1) + 1), extension |-> "png"]

\* (mutation) the check is made for another path: no page is found
PageExistsNowhere(t) == exists[t] /\ t \notin Pages

\* Line 140: path.exists() for the output file of page t
PageExists(t) == exists[t]

\* Lines 140-143 and 156-157: the output file exists, the page is skipped.
PageSkip(t) ==
    /\ opc = "polling"
    /\ upc[t] = "start"
    /\ PageExists(t)
    /\ upc' = [upc EXCEPT ![t] = "finish_ok"]
    /\ UNCHANGED <<ticketer_frame, ucount, uorigin, umwait_till, exists, opc,
                   oresult, oorigin, run, rl_time, req_rl, utickets>>

\* Line 135: Url::parse(&file_url)? fails, the page future ends with the
\* error before line 139.
PageUrlError(t) ==
    /\ opc = "polling"
    /\ upc[t] = "start"
    /\ upc' = [upc EXCEPT ![t] = "finish_err"]
    /\ UNCHANGED <<ticketer_frame, ucount, uorigin, umwait_till, exists, opc,
                   oresult, oorigin, run, rl_time, req_rl, utickets>>

\* Line 145: get_priority_ticket(origin), the acquisition of a Ticket for
\* the origin of the pages.
PageGetTicket(t) ==
    /\ opc = "polling"
    /\ upc[t] = "start"
    /\ ~PageExists(t)
    /\ EnterLoop(t, oorigin)
    /\ upc' = [upc EXCEPT ![t] = "ticket"]
    /\ uorigin' = [uorigin EXCEPT ![t] = oorigin]
    /\ utickets' = [utickets EXCEPT ![t] = @ + 1]
    /\ UNCHANGED <<policy, now, locked_till, poisoned, wait_till, mvars, hvars,
                   pvars, dvars, fvars, rvars, ucount, umwait_till, exists, opc, oresult,
                   oorigin, run, rl_time, req_rl>>

\* with_retry as called at line 148, without a wait closure: a rate-limited
\* attempt is tried again like a transient one, outside the budget
\* (retry.rs lines 86-97); after Ok the file is written (lines 150-152).
AfterPageFetch(t, out, w) ==
    IF out = Ok THEN (IF w = "written" THEN "finish_ok" ELSE "finish_err")
    ELSE IF out.variant = "RateLimitError" THEN "backoff"
    ELSE AfterFetch(t, out)

\* (mutation) the output file is created by every attempt, before the
\* image is asked for
PageFetchDoneCreatingFirst(t, out, w) ==
    /\ opc = "polling"
    /\ upc[t] = "attempt"
    /\ upc' = [upc EXCEPT ![t] = AfterPageFetch(t, out, w)]
    /\ exists' = [exists EXCEPT ![t] = @ \/ w # "create_failed"]
    /\ created' = [created EXCEPT ![t] = @ + 1]
    /\ UNCHANGED <<now, svars, tvars, mvars, hvars, pvars, dvars, rvars, position, ucount, uorigin, umwait_till, opc, oresult,
                   oorigin, run, rl_time, req_rl, utickets>>

\* Lines 148-152: download_image ends with `out`; after Ok, File::create
\* and write end with `w`.
PageFetchDone(t, out, w) ==
    /\ opc = "polling"
    /\ upc[t] = "attempt"
    /\ upc' = [upc EXCEPT ![t] = AfterPageFetch(t, out, w)]
    /\ exists' = [exists EXCEPT
                      ![t] = @ \/ (out = Ok /\ w # "create_failed")]
    /\ created' = [created EXCEPT ![t] = IF out = Ok THEN @ + 1 ELSE @]
    /\ UNCHANGED <<now, svars, tvars, mvars, hvars, pvars, dvars, rvars, position, ucount, uorigin, umwait_till, opc, oresult,
                   oorigin, run, rl_time, req_rl, utickets>>

\* (mutation) the error of a page is swallowed by the loop
CompleteIgnoringErrors(t) ==
    /\ opc = "polling"
    /\ upc[t] \in {"finish_ok", "finish_err"}
    /\ pc[t] = "idle"
    /\ upc' = [upc EXCEPT ![t] = IF upc[t] = "finish_ok" THEN "done" ELSE "failed"]
    /\ UNCHANGED <<ticketer_frame, ucount, uorigin, umwait_till, exists, opc,
                   oresult, oorigin, run, rl_time, req_rl, utickets>>

\* (mutation) the bar is advanced only for a page that was fetched
CompleteCountingFetched(t) ==
    /\ opc = "polling"
    /\ upc[t] \in {"finish_ok", "finish_err"}
    /\ pc[t] = "idle"
    /\ IF upc[t] = "finish_ok" THEN
           /\ upc' = [upc EXCEPT ![t] = "done"]
           /\ position' = IF utickets[t] > 0 THEN position + 1 ELSE position
           /\ UNCHANGED <<opc, oresult>>
       ELSE
           /\ upc' = [upc EXCEPT ![t] = "failed"]
           /\ opc' = "cancelling"
           /\ oresult' = Returned(FALSE, t)
           /\ UNCHANGED position
    /\ UNCHANGED <<now, svars, tvars, mvars, hvars, pvars, dvars, rvars, created, ucount, uorigin, umwait_till, exists,
                   oorigin, run, rl_time, req_rl, utickets>>

\* Lines 156-157 and 162-164: the page future is done and tasks.next()
\* yields its result in the same poll; on an error `result?` returns it
\* from download_to_directory, which drops `tasks`.  A page that ends well
\* has advanced the bar at line 156: position() and set_position() are
\* called one after the other with no await between them, and the page
\* futures, which share an Rc of the bar, are all polled by one task.
Complete(t) ==
    /\ opc = "polling"
    /\ upc[t] \in {"finish_ok", "finish_err"}
    /\ pc[t] = "idle"
    /\ IF upc[t] = "finish_ok" THEN
           /\ upc' = [upc EXCEPT ![t] = "done"]
           /\ position' = position + 1
           /\ UNCHANGED <<opc, oresult>>
       ELSE
           /\ upc' = [upc EXCEPT ![t] = "failed"]
           /\ opc' = "cancelling"
           /\ oresult' = Returned(FALSE, t)
           /\ UNCHANGED position
    /\ UNCHANGED <<now, svars, tvars, mvars, hvars, pvars, dvars, rvars, created, ucount, uorigin, umwait_till, exists,
                   oorigin, run, rl_time, req_rl, utickets>>

\* (mutation) a dropped page future keeps the permits of its Ticket
CancelLeaking(t) ==
    /\ opc = "cancelling"
    /\ upc[t] \notin {"none", "done", "failed", "cancelled"}
    /\ upc' = [upc EXCEPT ![t] = "cancelled"]
    /\ pc' = [pc EXCEPT ![t] = "idle"]
    /\ global_waiters' = Without(global_waiters, t)
    /\ lock_waiters' = [o \in Origins |-> Without(lock_waiters[o], t)]
    /\ UNCHANGED <<policy, now, partitions, locked_till, poisoned, mvars, hvars,
                   pvars, dvars, fvars, rvars, global_permits, global_permit, lock_permits,
                   local_permit, origin, wait_till, ucount, uorigin,
                   umwait_till, exists, opc, oresult, oorigin, run, rl_time,
                   req_rl, utickets>>

\* Line 163: the return of `result?` drops `tasks` and with it every page
\* future that is not done, wherever it stands: a Ticket it owns is dropped
\* (global permit first, the origin permit by DropLocalPermit), a pending
\* acquire leaves its queue, a permit already handed over is given back.
Cancel(t) ==
    /\ opc = "cancelling"
    /\ upc[t] \notin {"none", "done", "failed", "cancelled"}
    /\ upc' = [upc EXCEPT ![t] = "cancelled"]
    /\ CASE pc[t] = "holding" ->
               /\ ReleaseGlobal(t, "dropping")
               /\ UNCHANGED <<lock_permits, lock_waiters, local_permit, origin,
                              wait_till>>
         [] pc[t] = "wait_global" ->
               /\ ReleaseLocal(t, "idle")
               /\ global_waiters' = Without(global_waiters, t)
               /\ origin' = [origin EXCEPT ![t] = 1]
               /\ UNCHANGED <<global_permits, global_permit, wait_till>>
         [] pc[t] = "check" ->
               /\ ReleaseLocal(t, "idle")
               /\ origin' = [origin EXCEPT ![t] = 1]
               /\ UNCHANGED <<global_permits, global_waiters, global_permit,
                              wait_till>>
         [] pc[t] = "wait_local" ->
               /\ lock_waiters' = [lock_waiters EXCEPT
                                       ![origin[t]] = Without(@, t)]
               /\ pc' = [pc EXCEPT ![t] = "idle"]
               /\ origin' = [origin EXCEPT ![t] = 1]
               /\ UNCHANGED <<global_permits, global_waiters, global_permit,
                              lock_permits, local_permit, wait_till>>
         [] pc[t] = "sleep" ->
               /\ pc' = [pc EXCEPT ![t] = "idle"]
               /\ origin' = [origin EXCEPT ![t] = 1]
               /\ wait_till' = [wait_till EXCEPT ![t] = 0]
               /\ UNCHANGED <<global_permits, global_waiters, global_permit,
                              lock_permits, lock_waiters, local_permit>>
         [] OTHER ->
               UNCHANGED <<global_permits, global_waiters, global_permit,
                           lock_permits, lock_waiters, local_permit, pc,
                           origin, wait_till>>
    /\ UNCHANGED <<policy, now, partitions, locked_till, poisoned, mvars, hvars,
                   pvars, dvars, fvars, rvars, ucount, uorigin, umwait_till, exists, opc,
                   oresult, oorigin, run, rl_time, req_rl, utickets>>

\* Line 163: every page future is dropped, download_to_directory returns the
\* error.
ReturnErr ==
    /\ opc = "cancelling"
    /\ \A t \in Pages :
           upc[t] \in {"done", "failed", "cancelled"} /\ pc[t] = "idle"
    /\ opc' = "returned"
    /\ UNCHANGED <<ticketer_frame, upc, ucount, uorigin, umwait_till, exists,
                   oresult, oorigin, run, rl_time, req_rl, utickets>>

\* Lines 162-167: tasks.next() yields None, every page is done: Ok(()).
ReturnOk ==
    /\ opc = "polling"
    /\ \A t \in Pages : upc[t] = "done"
    /\ opc' = "returned"
    /\ oresult' = Returned(TRUE, 0)
    /\ UNCHANGED <<ticketer_frame, upc, ucount, uorigin, umwait_till, exists,
                   oorigin, run, rl_time, req_rl, utickets>>

\* After a first call that returned Ok the program is run again over the
\* same pages and directory, with a new bar (lines 108-117).
Rerun ==
    /\ opc = "returned"
    /\ oresult.ok
    /\ run = 1
    /\ run' = run + 1
    /\ opc' = "idle"
    /\ oresult' = NoReturn
    /\ upc' = [t \in Tasks |-> "none"]
    /\ ucount' = [t \in Tasks |-> 0]
    /\ utickets' = [t \in Tasks |-> 0]
    /\ position' = 0
    /\ created' = [t \in Tasks |-> 0]
    /\ UNCHANGED <<now, svars, tvars, mvars, hvars, pvars, dvars, rvars, uorigin, umwait_till, exists, oorigin,
                   rl_time, req_rl>>

\* The page futures are polled by the caller's task, one at a time, while
\* the call is in its loop: a page that has reached its end gives its Ticket
\* back and is taken out of `tasks` before another page is polled.
Polled(t) ==
    /\ opc = "polling"
    /\ \A u \in Pages \ {t} : upc[u] \notin {"finish_ok", "finish_err"}

\* One download_to_directory over NTasks pages.
FanOutNext ==
    \/ \E o \in Origins, ex \in FileSets : DownloadToDirectory(o, ex)
    \/ opc = "ticket" /\ CheckLockout(Orchestrator)
    \/ opc = "ticket" /\ DropGlobalPermit(Orchestrator)
    \/ opc = "ticket" /\ DropLocalPermit(Orchestrator)
    \/ Launch
    \/ \E t \in Pages : Polled(t) /\ PageSkip(t)
    \/ \E t \in Pages : Polled(t) /\ PageUrlError(t)
    \/ \E t \in Pages : Polled(t) /\ PageGetTicket(t)
    \/ \E t \in Pages : Polled(t) /\ CheckLockout(t)
    \/ \E t \in Pages : Polled(t) /\ StartAttempt(t)
    \/ \E t \in Pages, out \in UnitOutcomes, w \in WriteOutcomes :
           Polled(t) /\ PageFetchDone(t, out, w)
    \/ \E t \in Pages : Polled(t) /\ BackoffDone(t)
    \/ \E t \in Pages :
           opc = "polling" /\ TicketDropped(t) /\ DropGlobalPermit(t)
    \/ \E t \in Pages : TicketDropped(t) /\ DropLocalPermit(t)
    \/ \E t \in Pages : Complete(t)
    \/ \E t \in Pages : Cancel(t)
    \/ ReturnErr
    \/ ReturnOk
    \/ Rerun

FanOutSpec == Init /\ [][FanOutNext]_vars

\* ------------------------------------------------------------------ specs
\* ------------------------------------- title.rs: get_chapter_download_order
\* Lines 87-94: the ids of the chapters in the language asked for whose group
\* is not ignored.
Eligible ==
    {id \in DOMAIN chapter : /\ chapter[id].lang_code = lang_code
                             /\ chapter[id].group_id \notin ignored_groups}

\* Line 95: chapter_ids.sort() over distinct ids.
RECURSIVE Sorted(_)
Sorted(S) ==
    IF S = {} THEN <<>>
    ELSE LET m == CHOOSE x \in S : \A y \in S : x <= y
         IN  <<m>> \o Sorted(S \ {m})

\* Line 99: binary_search over the sorted ids; the index is 0-based.
binary_search(ids, x) ==
    IF \E i \in DOMAIN ids : ids[i] = x
    THEN [ok |-> TRUE, index |-> (CHOOSE i \in DOMAIN ids : ids[i] = x) - 1,
          err |-> "none"]
    ELSE [ok |-> FALSE, index |-> 0, err |-> "none"]

\* Lines 96-108: get_index; an id that is not among the sorted ids is an
\* error, ChapterIsWrongLanguage when the title has the chapter at all.
get_index(ids, chapter_id, default) ==
    IF chapter_id = None THEN [ok |-> TRUE, index |-> default, err |-> "none"]
    ELSE LET found == binary_search(ids, chapter_id)
         IN  IF found.ok THEN found
             ELSE [ok |-> FALSE, index |-> 0,
                   err |-> IF chapter_id \in DOMAIN chapter
                           THEN "ChapterIsWrongLanguage"
                           ELSE "NoSuchChapter"]

\* Line 112: chapter_ids.drain(start..end): the elements at the 0-based
\* indices start, ..., end - 1.
Drain(ids, start, end) == SubSeq(ids, start + 1, end)

\* Line 114: the description of a chapter.
description(id) == <<chapter[id].volume, chapter[id].chapter>>

\* (mutation) a later chapter replaces an earlier one of the same description
RECURSIVE LastSeen(_, _)
LastSeen(ids, seen) ==
    IF ids = <<>> THEN <<>>
    ELSE LET id == ids[Len(ids)]
             rest == SubSeq(ids, 1, Len(ids) - 1)
         IN  IF description(id) \in seen THEN LastSeen(rest, seen)
             ELSE LastSeen(rest, seen \cup {description(id)}) \o <<id>>

\* Lines 111-122: the filter keeps an id when its description has not been
\* seen among the ids before it.
RECURSIVE FirstSeen(_, _)
FirstSeen(ids, seen) ==
    IF ids = <<>> THEN <<>>
    ELSE LET id == Head(ids)
         IN  IF description(id) \in seen THEN FirstSeen(Tail(ids), seen)
             ELSE <<id>> \o FirstSeen(Tail(ids), seen \cup {description(id)})

\* Lines 86-124. The ? at lines 109 and 110 returns the error of the start
\* chapter before the end chapter is looked at; drain panics when the range
\* starts after its end.
get_chapter_download_order ==
    LET chapter_ids == Sorted(Eligible)
        start == get_index(chapter_ids, start_chapter, 0)
        end == get_index(chapter_ids, end_chapter, Len(chapter_ids))
    IN  IF ~start.ok THEN OrderErr(start.err, start_chapter)
        ELSE IF ~end.ok THEN OrderErr(end.err, end_chapter)
        ELSE IF start.index > end.index THEN OrderPanic
        ELSE LET selected == Drain(chapter_ids, start.index, end.index)
             IN  OrderOk(FirstSeen(selected, {}), selected)

\* One call of get_chapter_download_order on the title read.
GetChapterDownloadOrder ==
    /\ order = NoOrder
    /\ order' = get_chapter_download_order
    /\ UNCHANGED <<now, svars, tvars, mvars, hvars, pvars, rvars, uvars, fvars,
                   chapter, start_chapter, end_chapter>>

\* Any title and any pair of options, the order not yet computed.
OrderInit ==
    /\ New(TicketPolicy(1, 1))
    /\ chapter \in TitleData
    /\ start_chapter \in {None} \cup ChapterIds
    /\ end_chapter \in {None} \cup ChapterIds
    /\ order = NoOrder

OrderNext == GetChapterDownloadOrder

OrderSpec == OrderInit /\ [][OrderNext]_vars

Next ==
    \/ \E t \in Tasks, o \in Origins : GetTicket(t, o)
    \/ \E t \in Tasks : CheckLockout(t)
    \/ \E t \in Tasks : Wake(t)
    \/ \E t \in Tasks : DropGlobalPermit(t)
    \/ \E t \in Tasks : DropLocalPermit(t)
    \/ \E m \in Markers, o \in Origins : MarkBegin(m, o)
    \/ \E m \in Markers : MarkStore(m)
    \/ Tick

Spec == Init /\ [][Next]_vars

\* ------------------------------------------------ context.rs: from_args
\* Lines 45, 46 and 81-90: --global-threshold and --per-origin-threshold are
\* parsed into usize values, so 0 can be given.
MaxThreshold == 1
Thresholds == 0..MaxThreshold

\* Lines 107-113 and 138: the thresholds given go into the TicketPolicy as
\* they are and Ticketer::new is called with it.
from_args(global_threshold, per_origin_threshold) ==
    New(TicketPolicy(global_threshold, per_origin_threshold))

ArgsInit == (\E g, p \in Thresholds : from_args(g, p)) /\ NoTitle

\* The Ticketer of a context built from any arguments.
ArgsSpec == ArgsInit /\ [][Next]_vars

\* The runs in which rate-limit responses stop: an attempt that is not among
\* the first MaxAttempts is not answered with a rate limit (the only way
\* from an attempt to a backoff once the budget is used up).
RateLimitsStop ==
    \A t \in Pages :
        (upc[t] = "attempt" /\ ucount[t] >= MaxAttempts) => upc'[t] # "backoff"

FanOutLiveNext == FanOutNext /\ RateLimitsStop

\* The caller's task is polled whenever one of its futures can go on, and
\* every fetch attempt returns: a step that can be taken is taken.
FanOutFairSpec ==
    Init /\ [][FanOutLiveNext]_vars /\ WF_vars(FanOutLiveNext)

\* The runtime polls every ready task, a mark_origin_locked that has read the
\* clock goes on to store, time passes, and a Ticket that was returned is
\* dropped in the end.  Nothing obliges anyone to call get_ticket or
\* mark_origin_locked.
Fairness ==
    /\ WF_vars(Tick)
    /\ \A t \in Tasks :
           /\ WF_vars(CheckLockout(t))
           /\ WF_vars(Wake(t))
           /\ WF_vars(DropGlobalPermit(t))
           /\ WF_vars(DropLocalPermit(t))
    /\ \A m \in Markers : WF_vars(MarkStore(m))

\* The fair runs are explored for the Ticketer of
\* test_ticket_locks_on_rate_limit (one permit of each kind) and all callers
\* but the last.
LiveInit == Init /\ policy = TicketPolicy(1, 1)

LiveTasks == {t \in Tasks : t < NTasks}

LiveNext ==
    \/ \E t \in LiveTasks, o \in Origins : GetTicket(t, o)
    \/ \E t \in LiveTasks : CheckLockout(t)
    \/ \E t \in LiveTasks : Wake(t)
    \/ \E t \in LiveTasks : DropGlobalPermit(t)
    \/ \E t \in LiveTasks : DropLocalPermit(t)
    \/ \E m \in Markers, o \in Origins : MarkBegin(m, o)
    \/ \E m \in Markers : MarkStore(m)
    \/ Tick

FairSpec == LiveInit /\ [][LiveNext]_vars /\ Fairness

\* The Ticketer of test_ticket_blocking (max_global 2, max_per_site 1) with
\* no call of mark_origin_locked: no origin is ever locked out, so no caller
\* sleeps.  Polled tasks make progress and every Ticket is dropped in the end.
BlockingInit == Init /\ policy = TicketPolicy(2, 1)

BlockingNext ==
    \/ \E t \in Tasks, o \in Origins : GetTicket(t, o)
    \/ \E t \in Tasks : CheckLockout(t)
    \/ \E t \in Tasks : DropGlobalPermit(t)
    \/ \E t \in Tasks : DropLocalPermit(t)
    \/ Tick

BlockingFairness ==
    \A t \in Tasks :
        /\ WF_vars(CheckLockout(t))
        /\ WF_vars(DropGlobalPermit(t))
        /\ WF_vars(DropLocalPermit(t))

BlockingSpec == BlockingInit /\ [][BlockingNext]_vars /\ BlockingFairness

\* The test build: can_get_ticket (#[cfg(test)]) is called next to the calls
\* of get_ticket, mark_origin_locked and the drops.
ProbeNext ==
    \/ LiveNext
    \/ \E o \in Origins : ProbeGlobal(o)
    \/ ProbeLocal

ProbeSpec == Init /\ [][ProbeNext]_vars

TypeOK ==
    /\ policy \in Policies
    /\ now \in 0..MaxTime
    /\ global_permits \in 0..policy.max_global
    /\ partitions \subseteq Origins
    /\ \A o \in Origins : lock_permits[o] \in 0..policy.max_per_site
    /\ \A o \in Origins : locked_till[o] \in {None} \cup (0..MaxTime)
    /\ poisoned \in BOOLEAN
    /\ \A t \in Tasks : pc[t] \in {"idle", "wait_local", "check", "sleep",
                                   "wait_global", "holding", "dropping", "panicked"}
    /\ \A m \in Markers : mpc[m] \in {"idle", "locking", "panicked"}
    /\ marks \in 0..MaxMarks
    /\ probing \in {0} \cup Origins
    /\ rpc \in {"idle", "attempt", "wait", "sleep", "returned"}
    /\ count \in 0..MaxAttempts
    /\ duration \in Nat
    /\ log \in Seq(Outcomes) /\ Len(log) <= MaxAttempts
    /\ waits \in 0..MaxAttempts
    /\ Len(sleeps) < RetryBudget
    /\ \A t \in Tasks :
           /\ upc[t] \in {"none", "start", "ticket", "attempt", "backoff",
                          "marking", "replace", "finish_ok", "finish_err",
                          "done", "failed", "cancelled", "panicked"}
           /\ ucount[t] \in 0..MaxAttempts
           /\ uorigin[t] \in Origins
           /\ exists[t] \in BOOLEAN
           /\ req_rl[t] \in {None} \cup (0..MaxTime)
    /\ opc \in {"idle", "ticket", "polling", "cancelling", "returned"}
    /\ oresult \in {Returned(ok, t) : ok \in BOOLEAN, t \in {0} \cup Tasks}
    /\ oorigin \in Origins
    /\ run \in {1, 2}
    /\ position \in 0..Cardinality(Tasks)
    /\ \A t \in Tasks : created[t] \in 0..MaxAttempts
    /\ chapter \in TitleData
    /\ start_chapter \in {None} \cup ChapterIds
    /\ end_chapter \in {None} \cup ChapterIds
    /\ order.kind \in {"none", "Ok", "ChapterIsWrongLanguage", "NoSuchChapter",
                       "panic"}

\* ================================================================ claims
\* A Ticket is outstanding from the step that returns it until its drop
\* gives its global permit back.
Outstanding == {t \in Tasks : pc[t] = "holding"}

GlobalHolders == {t \in Tasks : global_permit[t]}

LocalHolders(o) == {t \in Tasks : local_permit[t] /\ origin[t] = o}

\* get_ticket returns its Ticket to caller t in this step.
Returns(t) == pc[t] # "holding" /\ pc'[t] = "holding"

\* C1: in every reachable state at most policy.max_global callers own a
\* permit of the global lock, so at most max_global Tickets are outstanding
\* and no queued caller is granted one while max_global are outstanding.
C1_GlobalCap ==
    /\ Cardinality(GlobalHolders) <= policy.max_global
    /\ Outstanding \subseteq GlobalHolders

\* C1 witness: max_global Tickets are outstanding and a caller is queued on
\* the exhausted global lock.
C1_Witness ==
    /\ Cardinality(Outstanding) = policy.max_global
    /\ global_waiters # <<>>
    /\ global_permits = 0

\* C2: for every origin at most policy.max_per_site callers own a permit of
\* its lock, hence at most max_per_site Tickets for it are outstanding,
\* whatever the global lock has free.
C2_PerOriginCap ==
    \A o \in Origins :
        /\ Cardinality(LocalHolders(o)) <= policy.max_per_site
        /\ {t \in Outstanding : origin[t] = o} \subseteq LocalHolders(o)

\* C2 witness: max_global = 3, max_per_site = 2, two Tickets for one origin
\* are held, a third caller is queued on that origin and the global lock
\* still has a free permit.
C2_Witness ==
    /\ policy = TicketPolicy(3, 2)
    /\ \E o \in Origins :
        /\ Cardinality({t \in Outstanding : origin[t] = o}) = 2
        /\ \E t \in Tasks : pc[t] = "wait_local" /\ origin[t] = o
    /\ global_permits > 0

\* C3: a caller that is queued on its origin's lock, has just been given its
\* permit, or sleeps out the origin's lockout, neither owns nor is queued
\* for a permit of the global lock.
C3_LocalBeforeGlobal ==
    \A t \in Tasks :
        pc[t] \in {"wait_local", "check", "sleep"} =>
            /\ ~global_permit[t]
            /\ \A i \in 1..Len(global_waiters) : global_waiters[i] # t

\* C3 witness: one caller is queued on an exhausted origin lock while
\* another one sleeps out a lockout and the global lock has free permits.
C3_Witness ==
    /\ \E t \in Tasks : pc[t] = "wait_local"
    /\ \E t \in Tasks : pc[t] = "sleep"
    /\ global_permits > 0

\* C4: no get_ticket(O) returns while O's stored deadline is still ahead.
C4_NoReturnWhileLocked ==
    [][\A t \in Tasks : Returns(t) => ~(locked_till[origin[t]] > now)]_vars

\* C5: a get_ticket(O) called after a mark_origin_locked(O) has completed
\* does not return before the deadline that call stored (the observed
\* caller, the call whose deadline was stored when get_ticket was called).
C5_NotBeforeDeadlineAtCall ==
    [][Returns(Observed) => now >= stored_at_call]_vars

\* C6: when mark_origin_locked(O) is called and completes while a caller
\* sleeps out O's lockout, that caller does not get its Ticket before the
\* deadline that call computed.
C6_NotBeforeDeadlineInSleep ==
    [][Returns(Observed) => now >= stored_in_sleep]_vars

\* C7: a caller that sleeps out an origin's lockout gets its Ticket in the
\* end: callers are served in turn, Tickets are dropped, and the clock reaches
\* every deadline.
C7_SleeperReturns ==
    \A t \in Tasks : (pc[t] = "sleep") ~> (pc[t] = "holding")

\* What is left of C7 when a poisoned state mutex is set aside.
SleeperReturnsUnlessPoisoned ==
    \A t \in Tasks : (pc[t] = "sleep") ~> (pc[t] = "holding" \/ poisoned)

\* The observed caller called while the origin was locked out and holds its
\* Ticket at the very deadline, which is still the one stored.
ReturnedAtDeadline ==
    /\ pc[Observed] = "holding"
    /\ stored_at_call > 0
    /\ now = stored_at_call
    /\ locked_till[origin[Observed]] = stored_at_call

\* C8: the deadline stored for an origin never decreases.
C8_DeadlineNeverDecreases ==
    [][\A o \in Origins : locked_till'[o] >= locked_till[o]]_vars

\* C9: a step of mark_origin_locked(O) leaves both locks' permits and queues,
\* every caller's permits and position (so every outstanding Ticket), and
\* the deadline of every other origin unchanged.
C9_MarkFrame ==
    [][\A m \in Markers :
           mpc'[m] # mpc[m] =>
               /\ UNCHANGED <<global_permits, global_waiters, lock_permits,
                              lock_waiters, pc, origin, local_permit,
                              global_permit, partitions>>
               /\ \A o \in Origins :
                      locked_till'[o] # locked_till[o] =>
                          mpc[m] = "locking" /\ o = morigin[m]]_vars

\* C9 witness: an origin is locked out while a Ticket for it is held.
C9_Witness ==
    \E t \in Outstanding : locked_till[origin[t]] > now

\* C10: while a Ticket is held or being dropped its caller never owns the
\* global permit without the origin permit: the global permit goes first.
C10_GlobalDroppedFirst ==
    \A t \in Tasks :
        pc[t] \in {"holding", "dropping"} => (global_permit[t] => local_permit[t])

\* C10 witness: a Ticket in the middle of its drop, global permit returned,
\* origin permit still owned.
C10_Witness ==
    \E t \in Tasks : pc[t] = "dropping" /\ local_permit[t] /\ ~global_permit[t]

\* C11: the free permits of the global lock plus the permits owned by
\* callers make max_global, the free permits of each origin's lock plus the
\* permits owned by callers make max_per_site; with no Ticket held and no
\* get_ticket in progress every lock has all its permits.
C11_UnitConservation ==
    /\ global_permits + Cardinality(GlobalHolders) = policy.max_global
    /\ \A o \in partitions :
           lock_permits[o] + Cardinality(LocalHolders(o)) = policy.max_per_site
    /\ (\A t \in Tasks : pc[t] \in {"idle", "panicked"}) =>
           /\ global_permits = policy.max_global
           /\ \A o \in partitions : lock_permits[o] = policy.max_per_site

\* C11 witness: Tickets were obtained for every origin, all were dropped, no
\* call is in progress.
C11_Witness ==
    /\ \A t \in Tasks : pc[t] = "idle"
    /\ partitions = Origins
    /\ global_permits = policy.max_global

\* C12: max_per_site = 1, max_global = 2, no lockout.  A call for an origin
\* nobody holds a permit of is not queued and, a global permit being free,
\* gets its Ticket at its next step; a second call for that origin holds no Ticket while the first
\* Ticket is held (it is queued on the origin's lock), and a queued caller
\* gets its Ticket in the end.
C12_SecondWaitsThenGranted ==
    /\ [][\A t \in Tasks :
              /\ (pc[t] = "idle" /\ pc'[t] = "wait_local") =>
                     LocalHolders(origin'[t]) # {}
              /\ (pc[t] = "idle" /\ pc'[t] # "idle") =>
                     pc'[t] \in {"check", "wait_local"}
              /\ (pc[t] = "check" /\ pc'[t] # "check" /\ CanTakeGlobal) =>
                     pc'[t] = "holding"]_vars
    /\ [](\A t \in Tasks, u \in Tasks :
              (t # u /\ origin[t] = origin[u] /\ pc[t] \in {"holding", "dropping"}
                 /\ local_permit[t])
              => pc[u] \in {"idle", "wait_local"})
    /\ \A t \in Tasks : (pc[t] = "wait_local") ~> (pc[t] = "holding")

\* C12 witness: one caller holds the Ticket for an origin, a second caller
\* for the same origin is queued, and a global permit is free.
C12_Witness ==
    /\ policy = TicketPolicy(2, 1)
    /\ \E t \in Tasks, u \in Tasks :
           /\ pc[t] = "holding" /\ pc[u] = "wait_local"
           /\ origin[t] = origin[u]
    /\ global_permits > 0

\* The free permits of origin o's lock; a partition not created yet is one
\* with all its permits (default_origin_details).
FreeUnits(o) == IF o \in partitions THEN lock_permits[o] ELSE OriginCapacity

\* C13: a step of can_get_ticket leaves the free permits of the global lock
\* and of every origin's lock and every deadline as they were, enters no
\* queue, and takes no permit for anyone.
C13_ProbeFrame ==
    [][probing' # probing =>
           /\ global_permits' = global_permits
           /\ \A o \in Origins : FreeUnits(o)' = FreeUnits(o)
           /\ locked_till' = locked_till
           /\ UNCHANGED <<global_waiters, lock_waiters, local_permit,
                          global_permit, pc>>]_vars

\* C13 witness: a call for an origin never referenced before is past line 90
\* while a Ticket is held and an origin is locked out.
C13_Witness ==
    /\ probing # 0
    /\ probing \notin partitions
    /\ Outstanding # {}
    /\ \E o \in Origins : locked_till[o] > now

C15_NoPanic ==
    /\ \A t \in Tasks : pc[t] # "panicked"
    /\ \A m \in Markers : mpc[m] # "panicked"
    /\ ~poisoned

\* The permanent errors as C16 lists them.
PermanentErrors ==
    {Outcome(v, FALSE, FALSE) :
        v \in {"IOError", "ParseError", "NoSuchChapter", "ChapterIsWrongLanguage"}}
    \cup {Outcome("ReqwestError", TRUE, FALSE), Outcome("ReqwestError", FALSE, TRUE),
          Outcome("ReqwestError", TRUE, TRUE)}

\* The transient errors: a ReqwestError that is neither a builder nor a
\* status error.
TransientErrors == {Outcome("ReqwestError", FALSE, FALSE)}

\* C16: when the first attempt fails with a permanent error, with_retry has
\* returned that error, from that one attempt, with no sleep and no call of
\* wait.
C16_PermanentReturnsAtOnce ==
    (Len(log) >= 1 /\ log[1] \in PermanentErrors) =>
        /\ rpc = "returned"
        /\ result = [value |-> log[1], attempt |-> 1]
        /\ Len(log) = 1
        /\ sleeps = <<>>
        /\ waits = 0

\* C16 witness: with_retry has returned an IOError, or a ReqwestError that
\* is a status error, from its first attempt.
C16_Witness ==
    /\ rpc = "returned"
    /\ Len(log) = 1
    /\ result.value \in {Outcome("IOError", FALSE, FALSE),
                         Outcome("ReqwestError", FALSE, TRUE)}

\* Attempts 1 .. n all failed with a transient error.
TransientUpTo(n) ==
    Len(log) >= n /\ \A i \in 1..n : log[i] \in TransientErrors

\* C17: while only transient failures were seen, up to three of them, every
\* failure was followed by a sleep and with_retry has not returned; when
\* the fourth attempt then succeeds, with_retry has returned its success
\* after 4 calls of f and 3 sleeps.
C17_ThreeFailuresThenSuccess ==
    /\ \A n \in 1..3 :
           (Len(log) = n /\ TransientUpTo(n)) =>
               rpc \in {"sleep", "attempt"} /\ Len(sleeps) = n /\ result = NoResult
    /\ (Len(log) >= 4 /\ TransientUpTo(3) /\ log[4] = Ok) =>
           /\ rpc = "returned"
           /\ result = [value |-> Ok, attempt |-> 4]
           /\ Len(log) = 4
           /\ Len(sleeps) = 3
           /\ waits = 0

\* C17 witness: three transient failures, then a success, returned.
C17_Witness ==
    /\ Len(log) = 4 /\ TransientUpTo(3) /\ log[4] = Ok
    /\ rpc = "returned"

\* C18: when every attempt fails with a transient error, with_retry returns
\* from the fourth attempt, with that attempt's error, after 3 sleeps, and
\* makes no fifth attempt.
C18_FourAttemptsThenError ==
    TransientUpTo(Len(log)) =>
        /\ Len(log) <= 4
        /\ Len(log) < 4 => (result = NoResult /\ rpc # "returned")
        /\ Len(log) = 4 =>
               /\ rpc = "returned"
               /\ result = [value |-> log[4], attempt |-> 4]
               /\ Len(sleeps) = 3
               /\ waits = 0

\* C18 witness: four transient failures, the last returned.
C18_Witness ==
    /\ Len(log) = 4 /\ TransientUpTo(4)
    /\ rpc = "returned"
    /\ result.value \in TransientErrors

\* Number of transient failures among the attempts made so far.
TransientFailures == Cardinality({i \in 1..Len(log) : log[i] \in TransientErrors})

\* C19: with_retry returns a transient error only when four attempts have
\* failed transiently, however many attempts were rate-limited.
C19_RateLimitedNotCounted ==
    (rpc = "returned" /\ result.value \in TransientErrors) => TransientFailures = 4

\* Every attempt made so far was rate-limited.
AllRateLimited == \A i \in 1..Len(log) : log[i] = RateLimitError

\* C20: while every attempt is rate-limited with_retry does not return and
\* does not sleep; wait has been called once per attempt made, the call for
\* the last attempt is over when the next attempt runs, and from wait
\* with_retry goes nowhere but to the next attempt.
C20_RateLimitedNeverReturns ==
    /\ [](AllRateLimited =>
             /\ rpc # "returned" /\ result = NoResult
             /\ sleeps = <<>>
             /\ waits = Len(log)
             /\ rpc = "wait" => Len(log) = count
             /\ rpc = "attempt" => Len(log) = count - 1)
    /\ [][rpc = "wait" => rpc' = "attempt" /\ log' = log /\ waits' = waits]_vars

\* C20 witness: more attempts than the transient budget, all rate-limited,
\* the next one running.
C20_Witness ==
    /\ AllRateLimited
    /\ Len(log) > RetryBudget
    /\ rpc = "attempt"

\* C21: with_retry never returns a RateLimitError: after a rate-limited
\* attempt it is in wait or in the next attempt, whatever count is.
C21_RateLimitNeverReturned ==
    /\ result.value.variant # "RateLimitError"
    /\ (Len(log) > 0 /\ log[Len(log)] = RateLimitError) =>
           rpc \in {"wait", "attempt"} /\ result = NoResult

\* C21 witness: an attempt was rate-limited when count had reached the
\* budget after three transient failures, and wait was called.
C21_Witness ==
    /\ rpc = "wait"
    /\ count >= RetryBudget
    /\ TransientFailures = 3
    /\ log[Len(log)] = RateLimitError

\* The classes of C22: a status error is permanent only for a 4xx other than
\* 429, a 429 is rate-limited, a request that could not be built is
\* permanent, every other reqwest::Error (a 5xx among them) is transient.
ClaimedClass(e) ==
    IF e.status = RateLimitCode THEN "rate_limited"
    ELSE IF e.kind = "builder" \/ (e.kind = "status" /\ e.status \in 400..499)
    THEN "permanent"
    ELSE "transient"

\* C22: right after an attempt that failed with a reqwest::Error, with_retry
\* has returned that error if it is permanent, is in wait if it is
\* rate-limited, and if it is transient sleeps before the next attempt
\* (or, the budget used up, has returned it).
C22_FailureClassification ==
    LET n == Len(log) IN
    (n > 0 /\ Len(causes) = n /\ causes[n] # NoCause
       /\ rpc \in {"returned", "wait", "sleep"}) =>
        CASE ClaimedClass(causes[n]) = "permanent" ->
                 rpc = "returned" /\ result.attempt = n
          [] ClaimedClass(causes[n]) = "rate_limited" -> rpc = "wait"
          [] ClaimedClass(causes[n]) = "transient" ->
                 IF count < RetryBudget THEN rpc = "sleep"
                 ELSE rpc = "returned" /\ result.attempt = n

\* The ceiling of the k-th backoff sleep as C23 gives it: 200ms * 3^(k-1).
ClaimedCeiling(k) == 200 * 3 ^ (k - 1)

C24_NoTicketWhileSleeping ==
    \A t \in UnitTasks :
        (upc[t] = "backoff" \/ (upc[t] = "ticket" /\ pc[t] = "sleep")) =>
            ~global_permit[t] /\ ~local_permit[t]

\* C25: when an attempt for O was rate-limited at time t and the unit's
\* mark_origin_locked(O) is complete, a get_ticket(O) call made from then on
\* (the unit's own call for its next attempt, or another task's) returns no
\* Ticket before t + rate_limit_wait_time; and a caller sleeps in get_ticket
\* only when its own origin had a rate-limited attempt.
C25_LockoutAfterRateLimit ==
    \A u \in UnitTasks :
        /\ (upc[u] \in {"ticket", "attempt"} /\ pc[u] = "holding"
              /\ req_rl[u] # None) =>
               now >= req_rl[u] + policy.rate_limit_wait_time
        /\ pc[u] = "sleep" => rl_time[origin[u]] # None

\* The units whose fetch attempt is in progress.
Fetching == {t \in Tasks : upc[t] = "attempt"}

\* C26: every fetch attempt of a unit runs while the unit holds a Ticket of
\* the fetched origin, so at most max_global attempts run at the same time,
\* and at most max_per_site for one origin.
C26_FetchesHoldTickets ==
    /\ \A t \in Fetching :
           /\ pc[t] = "holding"
           /\ global_permit[t] /\ local_permit[t]
           /\ origin[t] = uorigin[t]
    /\ Cardinality(Fetching) <= policy.max_global
    /\ \A o \in Origins :
           Cardinality({t \in Fetching : uorigin[t] = o}) <= policy.max_per_site

\* One page is being fetched and its sibling is kept waiting for a permit.
C26_Witness ==
    \E t \in Fetching, u \in Pages :
        /\ upc[u] = "ticket"
        /\ pc[u] = "wait_local"
        /\ ucount[t] > 1
        /\ Cardinality(Fetching) = policy.max_per_site

\* C27: when download_to_directory returns after the error of a page, every
\* sibling that was under way (it had started a fetch) has run to its end,
\* done or failed; none was dropped on the way.
C27_SiblingsDrained ==
    opc = "returned" =>
        \A t \in Pages :
            ucount[t] > 0 => upc[t] \in {"done", "failed"}

C29_NoTicketLeaked ==
    opc = "returned" =>
        /\ \A t \in Pages :
               /\ ~global_permit[t] /\ ~local_permit[t]
               /\ pc[t] \notin {"wait_local", "wait_global"}
        /\ global_permits = GlobalCapacity
        /\ global_waiters = <<>>
        /\ \A o \in partitions :
               lock_permits[o] = OriginCapacity /\ lock_waiters[o] = <<>>

\* An error was returned, and a page that was dropped with its fetch under
\* way has given both permits back.
C29_Witness ==
    /\ opc = "returned"
    /\ ~oresult.ok
    /\ \E t \in Pages : upc[t] = "cancelled" /\ ucount[t] > 0
    /\ global_permits = GlobalCapacity
    /\ lock_permits[oorigin] = OriginCapacity

\* C30: a page whose output file exists is completed without a Ticket and
\* without a fetch attempt: a page that asked for no Ticket made no attempt
\* and ends only with its file present, a page that asked for one has a file
\* only from its own fetch; and in a second call over the same pages and
\* directory, made after a first call returned Ok, every file exists, no page
\* asks for a Ticket and no page makes a fetch attempt.
C30_ExistingPagesSkipped ==
    /\ \A t \in Pages :
           /\ utickets[t] = 0 => ucount[t] = 0
           /\ (utickets[t] = 0 /\ upc[t] \in {"finish_ok", "done"}) => exists[t]
           /\ (utickets[t] > 0 /\ exists[t]) => ucount[t] > 0
    /\ run > 1 =>
           \A t \in Pages : exists[t] /\ utickets[t] = 0 /\ ucount[t] = 0

\* The second call has returned Ok, every page skipped.
C30_Witness ==
    /\ run > 1
    /\ opc = "returned"
    /\ oresult.ok
    /\ \A t \in Pages : upc[t] = "done" /\ exists[t] /\ utickets[t] = 0

\* C31: get_chapter_download_order returns at most one chapter id per
\* (volume, chapter) pair: the ids returned are in ascending order, no two of
\* them share a pair, and of the selected ids that share a pair the one
\* returned is the first in ascending id order.
C31_FirstOfEachDescription ==
    order.kind = "Ok" =>
        LET ids == order.ids
            sel == {order.selected[i] : i \in DOMAIN order.selected}
        IN  /\ \A i, j \in DOMAIN ids : i < j => ids[i] < ids[j]
            /\ \A i, j \in DOMAIN ids :
                   i # j => description(ids[i]) # description(ids[j])
            /\ {ids[i] : i \in DOMAIN ids} \subseteq sel
            /\ \A c \in sel : \E i \in DOMAIN ids :
                   /\ description(ids[i]) = description(c)
                   /\ ids[i] <= c
            /\ sel \subseteq Eligible

\* Three eligible chapters were selected, the first and the last of one
\* description, and two ids came back.
C31_Witness ==
    /\ order.kind = "Ok"
    /\ Len(order.selected) = 3
    /\ description(order.selected[1]) = description(order.selected[3])
    /\ description(order.selected[1]) # description(order.selected[2])
    /\ Len(order.ids) = 2

\* C38: with start_chapter = s and end_chapter = e both ids of eligible
\* chapters and s <= e, the ids selected before de-duplication are exactly
\* the eligible ids c with s <= c <= e: the last chapter asked for is itself
\* downloaded.
C38_EndChapterIncluded ==
    (/\ order # NoOrder
     /\ start_chapter \in Eligible
     /\ end_chapter \in Eligible
     /\ start_chapter <= end_chapter)
        => /\ order.kind = "Ok"
           /\ {order.selected[i] : i \in DOMAIN order.selected}
                  = {c \in Eligible : start_chapter <= c /\ c <= end_chapter}

\* C33: a policy whose global ceiling or per-origin ceiling is 0 is rejected
\* at construction: no Ticketer exists with a pool of capacity 0, on which
\* get_ticket can never be granted.
C33_ZeroCeilingRejected == GlobalCapacity >= 1 /\ OriginCapacity >= 1

\* C35: a get_ticket caller that sleeps until the lockout of its origin is
\* over holds neither a permit of the origin's lock nor a permit of the
\* global lock, so the permits of each lock are all either free or owned by
\* callers that are not asleep.
C35_SleepersHoldNothing ==
    /\ \A t \in Tasks :
           pc[t] = "sleep" => ~local_permit[t] /\ ~global_permit[t]
    /\ \A o \in partitions :
           lock_permits[o]
             + Cardinality({t \in Tasks : /\ local_permit[t]
                                          /\ origin[t] = o
                                          /\ pc[t] # "sleep"})
             = OriginCapacity
    /\ global_permits
         + Cardinality({t \in Tasks : global_permit[t] /\ pc[t] # "sleep"})
         = GlobalCapacity

\* One caller sleeps out the lockout of an origin whose single permit, given
\* back by the sleeper, is in the hands of a caller that holds a Ticket.
C35_Witness ==
    /\ policy.max_per_site = 1
    /\ \E t, u \in Tasks :
           /\ pc[t] = "sleep"
           /\ now < wait_till[t]
           /\ pc[u] = "holding"
           /\ origin[u] = origin[t]

\* C37: in with_retry_for_origin, mark_origin_locked(O) is called only by a
\* unit whose get_ticket(O) has completed: it holds a Ticket of O, the
\* partition of O exists, and the unwrap of mark_origin_locked never panics
\* on a missing entry.
C37_MarkAfterTicket ==
    /\ \A t \in UnitTasks :
           upc[t] = "marking" =>
               /\ pc[t] = "holding"
               /\ origin[t] = uorigin[t]
               /\ uorigin[t] \in partitions
    /\ \A t \in UnitTasks : upc[t] # "panicked"
    /\ ~poisoned

\* A rate-limited unit has stored the lockout of its origin and gone on, with
\* the other unit not yet started.
C37_Witness ==
    \E t, u \in UnitTasks :
        /\ upc[t] = "replace"
        /\ locked_till[uorigin[t]] = umwait_till[t]
        /\ upc[u] = "none"
        /\ partitions = {uorigin[t]}

\* C32: the chapter bar is advanced by one for every page that completes, in
\* whatever order the pages complete: its position is the number of pages
\* done, and when download_to_directory returns Ok it equals the number of
\* pages, skipped pages included.
C32_ProgressCountsPages ==
    /\ opc \in {"polling", "cancelling", "returned"} =>
           position = Cardinality({t \in Pages : upc[t] = "done"})
    /\ (opc = "returned" /\ oresult.ok) => position = Cardinality(Pages)

\* The call returned Ok with the bar at the number of pages; one page was
\* skipped and another was fetched in more than one attempt.
C32_Witness ==
    /\ opc = "returned"
    /\ oresult.ok
    /\ run = 1
    /\ position = Cardinality(Pages)
    /\ \E t \in Pages : utickets[t] = 0
    /\ \E t \in Pages : utickets[t] > 0 /\ ucount[t] > 1

\* C34: within one run of download_to_directory the output file of a page is
\* created at most once, however many attempts its fetch takes; different
\* pages have different paths; and when the run returns Ok the output file
\* of every page exists.
C34_EachFileOnce ==
    /\ \A t \in Pages : created[t] <= 1
    /\ \A t \in Pages : created[t] = 1 => ucount[t] >= 1
    /\ \A t, u \in Pages : t # u => PagePath(t) # PagePath(u)
    /\ (opc = "returned" /\ oresult.ok) => \A t \in Pages : exists[t]

\* The call returned Ok and a page whose fetch took three attempts has had
\* its file created once.
C34_Witness ==
    /\ opc = "returned"
    /\ oresult.ok
    /\ \E t \in Pages : ucount[t] = 3 /\ created[t] = 1 /\ exists[t]

\* A get_ticket call of page t that has not returned yet.
PendingTicket(t) == pc[t] \in {"wait_local", "check", "sleep", "wait_global"}

\* A get_ticket call of page t that is suspended at one of its awaits.
AwaitingTicket(t) == pc[t] \in {"wait_local", "sleep", "wait_global"}

\* C36: no task of the fan-out asks for a Ticket while it holds one, and
\* every pending get_ticket is granted in the end: a page that calls
\* get_ticket owns no permit, and a call of get_ticket that waits stays
\* pending until it returns the Ticket, it is never given up.
C36_PendingTicketsGranted ==
    [][\A t \in Pages :
           /\ (pc[t] = "idle" /\ PendingTicket(t)')
                  => ~local_permit[t] /\ ~global_permit[t]
           /\ AwaitingTicket(t) => PendingTicket(t)' \/ pc'[t] = "holding"]_vars

\* Once called, download_to_directory returns.
FanOutReturns == (opc # "idle") ~> (opc = "returned")

\* A pending get_ticket of a page is granted unless the page future is
\* dropped.
GrantedUnlessDropped ==
    \A t \in Pages :
        (opc = "polling" /\ PendingTicket(t))
            ~> (pc[t] = "holding" \/ upc[t] = "cancelled")

====
